---- MODULE Spec2Model ----
(***************************************************************************)
(* The two custom multi-objective optimizers of the notebook               *)
(* scripts/Completed_Setting_up_the_algorithms.ipynb, MOPSO and MODE, run  *)
(* by the generation loop of minimize() on ThreeDProblem.                  *)
(*                                                                         *)
(* Numbers.  Decision coordinates are fixed-point integers in tenths       *)
(* (xl = -5 is -50), objective values are in hundredths, so that           *)
(* ThreeDProblem._evaluate is exact.  Products with a fraction round       *)
(* towards minus infinity (\div).                                          *)
(*                                                                         *)
(* Randomness.  np.random is one process-wide generator: the variable rng. *)
(* It is a 16-bit linear congruential generator; every draw of the code    *)
(* takes the next state, in the order the code draws.  A draw of           *)
(* random() is quantised to RandRes levels q/RandRes, q in 0..RandRes-1.   *)
(* The uniform sample of the initial population is quantised by row: each  *)
(* row is one of SamplePoints, points of [xl, xu) some of which dominate   *)
(* others, since uniform points of this problem almost never do.           *)
(***************************************************************************)
EXTENDS Integers, Sequences, FiniteSets, TLC

VARIABLES
    alg,          \* the algorithm object handed to minimize: "MOPSO" or "MODE"
    pop_size,     \* self.pop_size
    n_max_gen,    \* N of the termination ('n_gen', N)
    seed,         \* seed= of minimize
    problem,      \* self.problem: "None" until setup
    rng,          \* the state of the process-wide np.random generator
    n_draws,      \* draws taken from np.random since it was seeded
    phase,        \* Uninitialized, Initialized, Running, Terminated, Failed
    n_gen,        \* the generation counter
    pop,          \* self.pop
    step,         \* the call of Algorithm.next() that comes next: "infill" or "advance"
    off,          \* _infill: the offspring rows as computed, before np.clip
    infills,      \* the evaluated offspring handed from infill to advance
    opt,          \* self.opt
    velocities,   \* MOPSO: self.velocities
    pbest,        \* MOPSO: self.pbest
    gbest,        \* MOPSO: self.gbest
    old_pbest,    \* MOPSO: self.pbest as the last _advance found it
    pool,         \* MODE._advance: its local pop, the merged pool
    next_pop,     \* MODE._advance: its local next_pop, indices into pool
    advance_ret,  \* what the last _advance returned
    first_run,    \* the results of the earlier runs with the same arguments
    infill_locals,\* MODE._infill: per target its locals a, b, c, j and the draws
    pf_pc,        \* MyProblem.pareto_front: "idle", "loop" in its loops, "done"
    n_points,     \* pareto_front: its argument
    combined,     \* pareto_front: the objective vectors of the grid, one per row
    is_dominated, \* pareto_front: the flags of the rows
    pf_i,         \* pareto_front: i of the outer loop (from 1)
    pf_j,         \* pareto_front: j of the inner loop (from 1)
    pareto_front  \* pareto_front: what it returned

\* The variables of a call of MyProblem.pareto_front.
pfvars == << pf_pc, n_points, combined, is_dominated, pf_i, pf_j, pareto_front >>

vars == << alg, pop_size, n_max_gen, seed, problem, rng, n_draws, phase, n_gen,
           step, pop, off, infills, opt, velocities, pbest, gbest, old_pbest, pool,
           next_pop, advance_ret, first_run, infill_locals, pfvars >>

\* ------------------------------------------------------------------ bounds
\* pop_size of the runs (the notebook passes 100).
PopSize == 3
\* The largest configured ('n_gen', N) (the notebook passes 100).
NGen == 3
\* Seeds 0..MaxSeed are tried (the notebook passes seed=1).
MaxSeed == 1023
\* Levels of one random() draw.
RandRes == 4
\* The largest merged pool handed to MODE._advance on its own.
MaxPool == 6
\* Seeds 0..MaxFairSeed for the runs checked for termination and the runs of
\* small populations.
MaxFairSeed == 31

\* ------------------------------------------------------- ThreeDProblem
n_var == 3
n_obj == 3
xl == [k \in 1..n_var |-> -50]
xu == [k \in 1..n_var |-> 50]

\* ThreeDProblem._evaluate: x in tenths, the result in hundredths.
Evaluate(x) ==
    << -1 * (5 * x[1] - 3 * x[2]),
       7 * x[1] + 10 * x[3] - 8 * x[2],
       -1 * (6 * x[3] - 2 * x[2]) >>

\* Population.new(X=X) followed by Evaluator.eval: one candidate per row.
Individual(x) == [X |-> x, F |-> Evaluate(x)]

NewPopulation(X) == [i \in 1..Len(X) |-> Individual(X[i])]

\* pop.get("X"), pop.get("F")
GetX(p) == [i \in 1..Len(p) |-> p[i].X]

GetF(p) == [i \in 1..Len(p) |-> p[i].F]

\* np.clip(x, xl, xu) on one coordinate
Clip1(v, lo, hi) == IF v < lo THEN lo ELSE IF v > hi THEN hi ELSE v

\* np.clip(X, problem.xl, problem.xu) on one row
Clip(x) == [k \in 1..n_var |-> Clip1(x[k], xl[k], xu[k])]

\* ------------------------------------------------------ objective values
\* An objective value is a double. The finite ones are the integers of the model;
\* the non-finite ones, which ThreeDProblem never returns but another problem
\* may, are these three.
PosInf == 1000000
NegInf == -1000000
NaN == 1000001

\* a < b, a <= b and a > b on doubles: false as soon as one side is NaN;
\* -inf is below and +inf above every finite value.
Lt(a, b) == a # NaN /\ b # NaN /\ a < b

Le(a, b) == a # NaN /\ b # NaN /\ a <= b

Gt(a, b) == a # NaN /\ b # NaN /\ a > b

\* ------------------------------------------------------------ np.random
\* One step of the generator.
LcgNext(s) == (s * 25173 + 13849) % 65536

RECURSIVE RngAfter(_, _)
\* The generator's state after n draws from state s.
RngAfter(s, n) == IF n = 0 THEN s ELSE RngAfter(LcgNext(s), n - 1)

\* The n-th draw after state s, as a number in 0..255.
Draw(s, n) == RngAfter(s, n) \div 256

\* A setup that leaves the generator where it stands instead of seeding it.
np_random_seed_ambient(sd) == rng

\* np.random.seed(seed), called by the setup of minimize(..., seed=seed)
np_random_seed(sd) == (sd * 40503 + 1) % 65536

\* np.random.random(): the level q of the n-th draw, standing for q/RandRes
Random(s, n) == (Draw(s, n) * RandRes) \div 256

\* np.random.randint(m): the n-th draw as an index in 0..m-1
RandInt(s, n, m) == (Draw(s, n) * m) \div 256

\* The rows np.random.uniform(xl, xu, size=(pop_size, n_var)) takes here.
SamplePoints ==
    << << -20, -30, -10 >>, << 0, 0, 0 >>, << 20, 30, 10 >>,
       << -50, -50, -50 >>, << 40, 40, 40 >> >>

\* np.random.uniform(xl, xu, ...): the row the n-th draw gives
UniformRow(s, n) == SamplePoints[1 + RandInt(s, n, Len(SamplePoints))]

\* The one element of a singleton: Only({e(x) : x \in {v}}) is e with x bound to
\* the value of v, computed once.
Only(S) == CHOOSE x \in S : TRUE

\* x with its elements at i and j exchanged
Swap(x, i, j) == [x EXCEPT ![i] = x[j], ![j] = x[i]]

RECURSIVE Shuffle(_, _, _, _)
\* np.random.shuffle(x): for i from the last element down to the second, exchange
\* x[i] with x[j], j drawn among the first i; the draws are n+1, n+2, ...
Shuffle(x, i, s, n) ==
    IF i < 2 THEN x
    ELSE Only({Shuffle(y, i - 1, s, n + 1) : y \in {Swap(x, i, 1 + RandInt(s, n + 1, i))}})

\* The draws a shuffle of len elements takes.
ShuffleDraws(len) == IF len < 2 THEN 0 ELSE len - 1

\* np.random.choice(a, size, replace=False): the first size elements of a
\* permutation of a, the permutation's draws being n+1, n+2, ...
ChoiceFrom(a, size, s, n) == SubSeq(Shuffle(a, Len(a), s, n), 1, size)

\* ------------------------------------------------- NonDominatedSorting
\* The domination test of the sorting (minimisation): a is smaller than b in some
\* objective and larger in none.
Dominates(a, b) ==
    /\ \E m \in 1..n_obj : Lt(a[m], b[m])
    /\ ~\E m \in 1..n_obj : Gt(a[m], b[m])

\* The elements of a set of numbers in increasing order.
SortedSeq(S) ==
    [i \in 1..Cardinality(S) |-> CHOOSE x \in S : Cardinality({y \in S : y < x}) = i - 1]

Range(seq) == {seq[i] : i \in 1..Len(seq)}

RECURSIVE Flatten(_)
Flatten(ss) == IF ss = << >> THEN << >> ELSE Head(ss) \o Flatten(Tail(ss))

\* The front after cur: a candidate joins it while the member of cur that is its
\* last dominator in cur is processed, once every candidate dominating it is ranked.
\* rel is the set of the pairs << d, j >> with candidate d dominating candidate j.
NextFront(rel, n, ranked, cur) ==
    Only({Flatten([p \in 1..Len(cur) |->
                      SortedSeq({j \in ready :
                                    /\ << cur[p], j >> \in rel
                                    /\ \A q \in (p + 1)..Len(cur) : << cur[q], j >> \notin rel})]) :
          ready \in {{j \in (1..n) \ ranked :
                         \A d \in (1..n) \ ranked : << d, j >> \notin rel}}})

RECURSIVE Peel(_, _, _, _)
\* The fronts from cur on, ranked being the candidates of cur and of the fronts before.
Peel(rel, n, ranked, cur) ==
    IF cur = << >> THEN << >>
    ELSE Only({<< cur >> \o Peel(rel, n, ranked \cup Range(nxt), nxt) :
               nxt \in {NextFront(rel, n, ranked, cur)}})

\* The fronts of n candidates with domination relation rel, front 0 in index order.
FrontsOf(rel, n) ==
    Only({Peel(rel, n, Range(first), first) :
          first \in {SortedSeq({j \in 1..n : \A d \in 1..n : << d, j >> \notin rel})}})

\* NonDominatedSorting().do(F): the fronts, each a sequence of indices into F.
NonDominatedSorting(objs) ==
    Only({FrontsOf(rel, Len(objs)) :
          rel \in {{e \in (1..Len(objs)) \X (1..Len(objs)) :
                       Dominates(objs[e[1]], objs[e[2]])}}})

\* NonDominatedSorting().do(F, only_non_dominated_front=True)
NonDominatedFront(objs) ==
    IF Len(objs) = 0 THEN << >> ELSE NonDominatedSorting(objs)[1]

\* pop[indices]
Take(p, idx) == Only({[i \in 1..Len(ix) |-> p[ix[i]]] : ix \in {idx}})
\* ---------------------------------------------------------------- MOPSO
\* MOPSO.__init__: w=0.9, c1=2.0, c2=2.0, as fractions << numerator, denominator >>
w == << 9, 10 >>
c1 == << 2, 1 >>
c2 == << 2, 1 >>

\* An attribute that holds no candidate yet.
NoIndividual == [X |-> << >>, F |-> << >>]

\* MOPSO._initialize_infill: pop_size rows drawn uniformly within [xl, xu).
MOPSO_initialize_infill(P, s) == [i \in 1..P |-> UniformRow(s, i)]

\* MOPSO._initialize_advance: the global best is pop[np.random.randint(pop_size)].
MOPSO_initial_gbest(p, P, s) == p[1 + RandInt(s, 1, P)]

\* MOPSO._infill, the velocity of coordinate k of member i: r1 is the first
\* pop_size * n_var draws of np.random.random((2, pop_size, n_var)), r2 the next.
MOPSO_velocity(X, vel, pb, gb, P, s, i, k) ==
    LET r1 == Random(s, (i - 1) * n_var + k)
        r2 == Random(s, P * n_var + (i - 1) * n_var + k)
        den == w[2] * c1[2] * c2[2] * RandRes
    IN  ( w[1] * vel[i][k] * c1[2] * c2[2] * RandRes
        + c1[1] * r1 * (pb[i].X[k] - X[i][k]) * w[2] * c2[2]
        + c2[1] * r2 * (gb.X[k] - X[i][k]) * w[2] * c1[2] ) \div den

MOPSO_velocities(X, vel, pb, gb, P, s) ==
    [i \in 1..P |-> [k \in 1..n_var |-> MOPSO_velocity(X, vel, pb, gb, P, s, i, k)]]

\* MOPSO._infill: X = X + self.velocities, with the new velocities v
MOPSO_move(X, v, P) == [i \in 1..P |-> [k \in 1..n_var |-> X[i][k] + v[i][k]]]

\* MOPSO._infill: X = np.clip(X, self.problem.xl, self.problem.xu)
MOPSO_infill(moved) == [i \in 1..Len(moved) |-> Clip(moved[i])]

\* A scalar comparison on the first objective instead of Pareto domination.
dominate_scalar(a, b) == a.F[1] < b.F[1]

\* MOPSO.dominate(a, b): np.all(a.F <= b.F) and np.any(a.F < b.F)
dominate(a, b) ==
    /\ \A m \in 1..Len(a.F) : Le(a.F[m], b.F[m])
    /\ \E m \in 1..Len(a.F) : Lt(a.F[m], b.F[m])

\* MOPSO.non_dominated(pop)
non_dominated(p) == Take(p, NonDominatedFront(GetF(p)))

\* MOPSO._advance, the personal bests: member i takes the new candidate if that
\* dominates its personal best.
MOPSO_update_pbest(newpop, pb, P) ==
    [i \in 1..Len(pb) |->
        IF i <= P /\ dominate(newpop[i], pb[i]) THEN newpop[i] ELSE pb[i]]

\* MOPSO._advance, the global best: a random member of non_dominated(self.pbest)
MOPSO_update_gbest(pb, gb, s) ==
    Only({IF Len(nd) > 0 THEN nd[1 + RandInt(s, 1, Len(nd))] ELSE gb :
          nd \in {non_dominated(pb)}})

\* ----------------------------------------------------------------- MODE
\* MODE.__init__: F=0.5, CR=0.5, as fractions << numerator, denominator >>
F == << 1, 2 >>
CR == << 1, 2 >>

\* MODE._initialize_infill: pop_size rows drawn uniformly within [xl, xu).
MODE_initialize_infill(P, s) == [i \in 1..P |-> UniformRow(s, i)]

\* The draws one target of MODE._infill takes: three donors, j, one per dimension.
DrawsPerTarget(P) == ShuffleDraws(P) + 1 + n_var

\* Three donors drawn one by one, each from all the candidates.
MODE_donors_replace(P, s, i) ==
    [n \in 1..3 |-> 1 + RandInt(s, (i - 1) * DrawsPerTarget(P) + n, P)]

\* MODE._infill: a, b, c = np.random.choice(pop_size, 3, replace=False) of target i
MODE_donors(P, s, i) ==
    ChoiceFrom([d \in 1..P |-> d], 3, s, (i - 1) * DrawsPerTarget(P))

\* MODE._infill, the locals of target i: the donors abc, j = np.random.randint(n_var)
\* (from 1 here) and r[k], the np.random.random() of dimension k.
MODE_locals(P, s, i) ==
    LET base == (i - 1) * DrawsPerTarget(P) + ShuffleDraws(P)
    IN  [abc |-> MODE_donors(P, s, i),
         j |-> 1 + RandInt(s, base + 1, n_var),
         r |-> [k \in 1..n_var |-> Random(s, base + 1 + k)]]

\* MODE._infill: the offspring of target i before clipping.
MODE_trial(X, P, s, i) ==
    Only({ LET abc == l.abc
               v == [k \in 1..n_var |->
                       X[abc[1]][k] + (F[1] * (X[abc[2]][k] - X[abc[3]][k])) \div F[2]]
               cross(k) == l.r[k] * CR[2] < CR[1] * RandRes
           IN  [k \in 1..n_var |-> IF cross(k) \/ k = l.j THEN v[k] ELSE X[i][k]]
           : l \in {MODE_locals(P, s, i)} })

\* MODE._infill: the array off when the loop over the targets ends
MODE_off(X, P, s) == [i \in 1..P |-> MODE_trial(X, P, s, i)]

\* An _infill that returns the offspring as computed.
MODE_infill_unclipped(trial) == trial

\* MODE._infill: off = np.clip(off, self.problem.xl, self.problem.xu)
MODE_infill(trial) == [i \in 1..Len(trial) |-> Clip(trial[i])]

RECURSIVE MODE_select(_, _, _, _)
\* MODE._advance, the loop over the fronts: whole fronts while they fit, then
\* np.random.choice(front, remaining, replace=False) and break.
MODE_select(fronts, chosen, P, s) ==
    IF fronts = << >> THEN chosen
    ELSE IF Len(chosen) + Len(Head(fronts)) <= P
         THEN MODE_select(Tail(fronts), chosen \o Head(fronts), P, s)
         ELSE chosen \o ChoiceFrom(Head(fronts), P - Len(chosen), s, 0)

\* Population.merge(self.pop, infills)
Merge(a, b) == a \o b

RECURSIVE MODE_select_greedy(_, _, _)
\* A selection that admits a whole front as long as there is any room left.
MODE_select_greedy(fronts, chosen, P) ==
    IF fronts = << >> \/ Len(chosen) >= P THEN chosen
    ELSE MODE_select_greedy(Tail(fronts), chosen \o Head(fronts), P)

MODE_advance_greedy(fronts, P, s) == MODE_select_greedy(fronts, << >>, P)

RECURSIVE MODE_select_skip(_, _, _)
\* A selection that passes over a front that does not fit and goes on with the
\* fronts after it.
MODE_select_skip(fronts, chosen, P) ==
    IF fronts = << >> THEN chosen
    ELSE IF Len(chosen) + Len(Head(fronts)) <= P
         THEN MODE_select_skip(Tail(fronts), chosen \o Head(fronts), P)
         ELSE MODE_select_skip(Tail(fronts), chosen, P)

MODE_advance_skip(fronts, P, s) == MODE_select_skip(fronts, << >>, P)

RECURSIVE PadTo(_, _)
PadTo(chosen, P) ==
    IF Len(chosen) >= P \/ chosen = << >> THEN chosen ELSE PadTo(Append(chosen, chosen[1]), P)

\* A selection that fills a short population up to pop_size with copies.
MODE_advance_padded(fronts, P, s) == PadTo(MODE_select(fronts, << >>, P, s), P)

\* A selection that keeps the offspring alone: the second half of the pool.
MODE_advance_offspring(fronts, P, s) == [i \in 1..P |-> P + i]

\* MODE._advance: the indices next_pop, from the fronts of the merged pool
MODE_advance(fronts, P, s) == MODE_select(fronts, << >>, P, s)

\* MODE._set_optimum
MODE_set_optimum(p) == Take(p, NonDominatedFront(GetF(p)))

\* An optimum that is the whole population instead of its first front.
MOPSO_set_optimum_all(p) == p

\* MOPSO._set_optimum
MOPSO_set_optimum(p) == non_dominated(p)
\* --------------------------------------------------------------- driver
Algorithms == {"MOPSO", "MODE"}

\* Algorithm._post_advance: the optimum, then the generation counter.
SetOptimum(p) == IF alg = "MOPSO" THEN MOPSO_set_optimum(p) ELSE MODE_set_optimum(p)

\* A termination test that is one generation late.
HasNext_late == n_gen <= n_max_gen

\* The termination ('n_gen', N): the run goes on while the counter is below N.
HasNext == n_gen < n_max_gen

\* MyProblem.pareto_front has not been called.
PF_Idle ==
    /\ pf_pc = "idle"
    /\ n_points = 0
    /\ combined = << >>
    /\ is_dominated = << >>
    /\ pf_i = 0
    /\ pf_j = 0
    /\ pareto_front = << >>

\* The state before minimize(problem, algorithm, ('n_gen', N), seed=sd) is called.
Fresh(a, P, N, sd) ==
    /\ alg = a
    /\ pop_size = P
    /\ n_max_gen = N
    /\ seed = sd
    /\ problem = "None"
    /\ n_draws = 0
    /\ phase = "Uninitialized"
    /\ n_gen = 0
    /\ step = "infill"
    /\ pop = << >>
    /\ off = << >>
    /\ infills = << >>
    /\ opt = << >>
    /\ velocities = << >>
    /\ pbest = << >>
    /\ gbest = NoIndividual
    /\ old_pbest = << >>
    /\ pool = << >>
    /\ next_pop = << >>
    /\ advance_ret = "None"
    /\ infill_locals = << >>
    /\ PF_Idle

Init ==
    /\ \E a \in Algorithms, N \in 1..NGen, sd \in 0..MaxSeed : Fresh(a, PopSize, N, sd)
    /\ rng = 0
    /\ first_run = << >>

\* minimize: algorithm.setup(problem, seed=seed) seeds np.random; MODE._setup and
\* Algorithm.setup set self.problem.
Setup ==
    /\ problem = "None"
    /\ problem' = "ThreeDProblem"
    /\ rng' = np_random_seed(seed)
    /\ n_draws' = 0
    /\ UNCHANGED << infill_locals, pfvars >>
    /\ UNCHANGED << alg, pop_size, n_max_gen, seed, phase, n_gen, step, pop, off, infills,
                    opt, velocities, pbest, gbest, old_pbest, pool, next_pop,
                    advance_ret, first_run >>

\* The first next(): infill() calls _initialize_infill, the evaluator evaluates.
InitializeInfill ==
    /\ problem # "None"
    /\ phase = "Uninitialized"
    /\ step = "infill"
    /\ infills' = NewPopulation(IF alg = "MOPSO"
                                THEN MOPSO_initialize_infill(pop_size, rng)
                                ELSE MODE_initialize_infill(pop_size, rng))
    /\ rng' = RngAfter(rng, pop_size)
    /\ n_draws' = n_draws + pop_size
    /\ step' = "advance"
    /\ UNCHANGED << infill_locals, pfvars >>
    /\ UNCHANGED << alg, pop_size, n_max_gen, seed, problem, phase, n_gen, pop, off, opt,
                    velocities, pbest, gbest, old_pbest, pool, next_pop,
                    advance_ret, first_run >>

\* The first advance() of a MOPSO: self.pop = infills, MOPSO._initialize_advance,
\* then _post_advance with the counter at 1.
MOPSO_InitializeAdvance ==
    /\ alg = "MOPSO"
    /\ phase = "Uninitialized"
    /\ step = "advance"
    /\ pop' = infills
    /\ velocities' = [i \in 1..pop_size |-> [k \in 1..n_var |-> 0]]
    /\ pbest' = infills
    /\ gbest' = MOPSO_initial_gbest(infills, pop_size, rng)
    /\ rng' = RngAfter(rng, 1)
    /\ n_draws' = n_draws + 1
    /\ opt' = SetOptimum(pop')
    /\ n_gen' = 1
    /\ phase' = "Initialized"
    /\ step' = "infill"
    /\ UNCHANGED << infill_locals, pfvars >>
    /\ UNCHANGED << alg, pop_size, n_max_gen, seed, problem, off, infills, old_pbest, pool,
                    next_pop, advance_ret, first_run >>

\* The first advance() of a MODE: self.pop = infills (MODE has no
\* _initialize_advance of its own), then _post_advance with the counter at 1.
MODE_InitializeAdvance ==
    /\ alg = "MODE"
    /\ phase = "Uninitialized"
    /\ step = "advance"
    /\ pop' = infills
    /\ opt' = SetOptimum(pop')
    /\ n_gen' = 1
    /\ phase' = "Initialized"
    /\ step' = "infill"
    /\ UNCHANGED << infill_locals, pfvars >>
    /\ UNCHANGED << alg, pop_size, n_max_gen, seed, problem, rng, n_draws, off, infills,
                    velocities, pbest, gbest, old_pbest, pool, next_pop,
                    advance_ret, first_run >>

\* A later next() of a MOPSO, its first half: MOPSO._infill and the evaluation.
MOPSO_Infill ==
    /\ alg = "MOPSO"
    /\ phase \in {"Initialized", "Running"}
    /\ step = "infill"
    /\ HasNext
    /\ velocities' = MOPSO_velocities(GetX(pop), velocities, pbest, gbest, pop_size, rng)
    /\ off' = MOPSO_move(GetX(pop), velocities', pop_size)
    /\ infills' = NewPopulation(MOPSO_infill(off'))
    /\ rng' = RngAfter(rng, 2 * pop_size * n_var)
    /\ n_draws' = n_draws + 2 * pop_size * n_var
    /\ phase' = "Running"
    /\ step' = "advance"
    /\ UNCHANGED << infill_locals, pfvars >>
    /\ UNCHANGED << alg, pop_size, n_max_gen, seed, problem, n_gen, pop, opt, pbest,
                    gbest, old_pbest, pool, next_pop, advance_ret, first_run >>

\* A later next() of a MOPSO, its second half: MOPSO._advance, then _post_advance.
MOPSO_Advance ==
    /\ alg = "MOPSO"
    /\ phase = "Running"
    /\ step = "advance"
    /\ pop' = infills
    /\ old_pbest' = pbest
    /\ pbest' = MOPSO_update_pbest(pop', pbest, pop_size)
    /\ gbest' = MOPSO_update_gbest(pbest', gbest, rng)
    /\ rng' = RngAfter(rng, 1)
    /\ n_draws' = n_draws + 1
    /\ advance_ret' = "None"
    /\ opt' = SetOptimum(pop')
    /\ n_gen' = n_gen + 1
    /\ step' = "infill"
    /\ UNCHANGED << infill_locals, pfvars >>
    /\ UNCHANGED << alg, pop_size, n_max_gen, seed, problem, phase, off, infills,
                    velocities, pool, next_pop, first_run >>

\* A later next() of a MODE, its first half: MODE._infill and the evaluation.
\* With fewer than 3 candidates np.random.choice(self.pop_size, 3, replace=False)
\* raises ValueError for the first target, before any draw, and the run is over.
MODE_Infill ==
    /\ alg = "MODE"
    /\ phase \in {"Initialized", "Running"}
    /\ step = "infill"
    /\ HasNext
    /\ IF pop_size < 3
       THEN /\ phase' = "Failed"
            /\ UNCHANGED << off, infills, rng, n_draws, step, infill_locals >>
       ELSE /\ infill_locals' = [i \in 1..pop_size |-> MODE_locals(pop_size, rng, i)]
            /\ off' = MODE_off(GetX(pop), pop_size, rng)
            /\ infills' = NewPopulation(MODE_infill(off'))
            /\ rng' = RngAfter(rng, pop_size * DrawsPerTarget(pop_size))
            /\ n_draws' = n_draws + pop_size * DrawsPerTarget(pop_size)
            /\ phase' = "Running"
            /\ step' = "advance"
    /\ UNCHANGED pfvars
    /\ UNCHANGED << alg, pop_size, n_max_gen, seed, problem, n_gen, pop, opt,
                    velocities, pbest, gbest, old_pbest, pool, next_pop,
                    advance_ret, first_run >>

RECURSIVE MODE_truncated(_, _, _)
\* MODE._advance: the front handed to np.random.choice, << >> if every front fits.
MODE_truncated(fronts, n, P) ==
    IF fronts = << >> THEN << >>
    ELSE IF n + Len(Head(fronts)) <= P
         THEN MODE_truncated(Tail(fronts), n + Len(Head(fronts)), P)
         ELSE Head(fronts)

\* The draws MODE._advance takes: those of its np.random.choice, if it calls it.
MODE_advance_draws(fronts, P) == ShuffleDraws(Len(MODE_truncated(fronts, 0, P)))

\* A later next() of a MODE, its second half: MODE._advance, then _post_advance.
MODE_Advance ==
    /\ alg = "MODE"
    /\ phase = "Running"
    /\ step = "advance"
    /\ pool' = Merge(pop, infills)
    /\ \E fronts \in {NonDominatedSorting(GetF(Merge(pop, infills)))} :
           \E draws \in {MODE_advance_draws(fronts, pop_size)} :
               /\ next_pop' = MODE_advance(fronts, pop_size, rng)
               /\ rng' = RngAfter(rng, draws)
               /\ n_draws' = n_draws + draws
    /\ pop' = Take(pool', next_pop')
    /\ advance_ret' = "None"
    /\ opt' = SetOptimum(pop')
    /\ n_gen' = n_gen + 1
    /\ step' = "infill"
    /\ UNCHANGED << infill_locals, pfvars >>
    /\ UNCHANGED << alg, pop_size, n_max_gen, seed, problem, phase, off, infills,
                    velocities, pbest, gbest, old_pbest, first_run >>

\* Algorithm.run: the loop ends when has_next() is false; the result is exposed.
Finish ==
    /\ phase \in {"Initialized", "Running"}
    /\ step = "infill"
    /\ ~HasNext
    /\ phase' = "Terminated"
    /\ UNCHANGED << infill_locals, pfvars >>
    /\ UNCHANGED << alg, pop_size, n_max_gen, seed, problem, rng, n_draws, n_gen, step,
                    pop, off, infills, opt, velocities, pbest, gbest, old_pbest, pool,
                    next_pop, advance_ret, first_run >>

Next ==
    \/ Setup
    \/ InitializeInfill
    \/ MOPSO_InitializeAdvance
    \/ MODE_InitializeAdvance
    \/ MOPSO_Infill
    \/ MOPSO_Advance
    \/ MODE_Infill
    \/ MODE_Advance
    \/ Finish

Spec == Init /\ [][Next]_vars
\* A run that goes on until it ends: the loop of Algorithm.run is sequential
\* code, so a step that can be taken is taken. The seeds are the first of Init's.
FairInit == Init /\ seed <= MaxFairSeed

FairSpec == FairInit /\ [][Next]_vars /\ WF_vars(Next)

\* ------------------------------------------------- a second, identical run
\* minimize is called again with the same algorithm, problem, termination and
\* seed; the generator is left where the first run left it.
Rerun ==
    /\ phase = "Terminated"
    /\ first_run = << >>
    /\ first_run' = << [pop |-> pop, opt |-> opt, n_gen |-> n_gen,
                        n_draws |-> n_draws, rng |-> rng] >>
    /\ problem' = "None"
    /\ n_draws' = 0
    /\ phase' = "Uninitialized"
    /\ n_gen' = 0
    /\ step' = "infill"
    /\ pop' = << >>
    /\ off' = << >>
    /\ infills' = << >>
    /\ opt' = << >>
    /\ velocities' = << >>
    /\ pbest' = << >>
    /\ gbest' = NoIndividual
    /\ old_pbest' = << >>
    /\ pool' = << >>
    /\ next_pop' = << >>
    /\ advance_ret' = "None"
    /\ infill_locals' = << >>
    /\ UNCHANGED pfvars
    /\ UNCHANGED << alg, pop_size, n_max_gen, seed, rng >>

RerunSpec == Init /\ [][Next \/ Rerun]_vars

\* ------------------------------------------- runs of small populations
\* The runs of Init and those with a smaller pop_size, for the first seeds.
SmallInit ==
    /\ \E a \in Algorithms, P \in 1..PopSize, N \in 1..NGen, sd \in 0..MaxFairSeed :
           Fresh(a, P, N, sd)
    /\ rng = 0
    /\ first_run = << >>

SmallSpec == SmallInit /\ [][Next]_vars

\* ------------------------------------- MODE._advance on pools of any size
\* The rows of the candidates of such a pool.
PoolRows == {SamplePoints[i] : i \in 1..4}

SeqsUpTo(S, n) == UNION {[1..l -> S] : l \in 0..n}

Min(a, b) == IF a < b THEN a ELSE b

\* MODE._advance is about to run on self.pop and infills, which together are the
\* pool m: self.pop is its first pop_size candidates, as far as there are.
InitPool ==
    \E P \in {PopSize, PopSize + 1}, m \in SeqsUpTo(PoolRows, MaxPool), sd \in {0, MaxSeed} :
        /\ alg = "MODE"
        /\ pop_size = P
        /\ n_max_gen = NGen
        /\ seed = sd
        /\ problem = "ThreeDProblem"
        /\ rng = np_random_seed(sd)
        /\ n_draws = 0
        /\ phase = "Running"
        /\ n_gen = 1
        /\ step = "advance"
        /\ pop = NewPopulation(SubSeq(m, 1, Min(Len(m), P)))
        /\ off = SubSeq(m, Min(Len(m), P) + 1, Len(m))
        /\ infills = NewPopulation(SubSeq(m, Min(Len(m), P) + 1, Len(m)))
        /\ opt = MODE_set_optimum(pop)
        /\ velocities = << >>
        /\ pbest = << >>
        /\ gbest = NoIndividual
        /\ old_pbest = << >>
        /\ pool = << >>
        /\ next_pop = << >>
        /\ advance_ret = "None"
        /\ first_run = << >>
        /\ infill_locals = << >>
        /\ PF_Idle

PoolSpec == InitPool /\ [][MODE_Advance]_vars

\* ------------------------- _advance on candidates with non-finite objectives
\* pop_size of these runs.
NonFinitePop == 2

\* The objective vectors a problem returned for the candidates.
NonFiniteF ==
    { << 0, 0, 0 >>, << 100, 100, 100 >>, << NaN, NaN, NaN >>, << NaN, 0, 0 >>,
      << PosInf, -100, 0 >>, << NegInf, 0, 0 >>, << PosInf, PosInf, PosInf >> }

\* A MOPSO or a MODE has been initialized on a problem that returns the vectors f
\* for the initial population and for the offspring of its first generation, and
\* _advance is about to run.
InitNonFinite ==
    \E a \in Algorithms, f \in [1..(2 * NonFinitePop) -> NonFiniteF] :
        /\ alg = a
        /\ pop_size = NonFinitePop
        /\ n_max_gen = NGen
        /\ seed = 0
        /\ problem = "Problem"
        /\ rng = np_random_seed(0)
        /\ n_draws = 0
        /\ phase = "Running"
        /\ n_gen = 1
        /\ step = "advance"
        /\ pop = [i \in 1..NonFinitePop |-> [X |-> << i, 0, 0 >>, F |-> f[i]]]
        /\ off = [i \in 1..NonFinitePop |-> << NonFinitePop + i, 0, 0 >>]
        /\ infills = [i \in 1..NonFinitePop |->
                          [X |-> << NonFinitePop + i, 0, 0 >>, F |-> f[NonFinitePop + i]]]
        /\ opt = IF a = "MOPSO" THEN MOPSO_set_optimum(pop) ELSE MODE_set_optimum(pop)
        /\ velocities = IF a = "MOPSO"
                        THEN [i \in 1..NonFinitePop |-> [k \in 1..n_var |-> 0]]
                        ELSE << >>
        /\ pbest = IF a = "MOPSO" THEN pop ELSE << >>
        /\ gbest = IF a = "MOPSO" THEN pop[1] ELSE NoIndividual
        /\ old_pbest = << >>
        /\ pool = << >>
        /\ next_pop = << >>
        /\ advance_ret = "None"
        /\ first_run = << >>
        /\ infill_locals = << >>
        /\ PF_Idle

NonFiniteSpec == InitNonFinite /\ [][MOPSO_Advance \/ MODE_Advance]_vars

\* ------------------------------------------------ MyProblem.pareto_front
\* The largest n_points of a call (the notebook calls with the default, 20).
GridN == 3

\* np.linspace(-5, 5, n): its t-th point (t from 0) in units of 1/LinScale(n), so
\* that the points are integers.
LinScale(n) == IF n > 1 THEN n - 1 ELSE 1

Linspace(n, t) == -5 * LinScale(n) + 10 * t

\* F1, F2, F3 of pareto_front at the point x, times 10. The point is in units of
\* 1/LinScale(n_points), and so is the result: one call compares only vectors
\* of one scale.
GridEvaluate(x) ==
    << -1 * (5 * x[1] - 3 * x[2]),
       7 * x[1] + 10 * x[3] - 8 * x[2],
       -1 * (6 * x[3] - 2 * x[2]) >>

\* np.meshgrid(x0, x1, x2) flattened: row idx (from 1) of combined is the grid
\* point whose x1 index is the slowest, then x0, then x2.
GridPoint(n, idx) ==
    << Linspace(n, ((idx - 1) \div n) % n),
       Linspace(n, (idx - 1) \div (n * n)),
       Linspace(n, (idx - 1) % n) >>

\* np.vstack((F1_flat, F2_flat, F3_flat)).T
Combined(n) == [idx \in 1..(n * n * n) |-> GridEvaluate(GridPoint(n, idx))]

\* The test of the inner loop: row j makes row i dominated.
PF_Test(c, i, j) == c[j][1] <= c[i][1] /\ c[j][2] < c[i][2]

RECURSIVE Filter(_, _)
\* combined[~is_dominated]
Filter(c, d) ==
    IF c = << >> THEN << >>
    ELSE (IF d[1] THEN << >> ELSE << c[1] >>) \o Filter(Tail(c), Tail(d))

\* problem.pareto_front(n): the grid is evaluated, the flags are all False, the
\* loops are about to start.
PF_Call ==
    /\ pf_pc = "idle"
    /\ \E n \in 1..GridN :
          /\ n_points' = n
          /\ combined' = Combined(n)
          /\ is_dominated' = [idx \in 1..(n * n * n) |-> FALSE]
    /\ pf_i' = 1
    /\ pf_j' = 1
    /\ pf_pc' = "loop"
    /\ pareto_front' = << >>
    /\ UNCHANGED << alg, pop_size, n_max_gen, seed, problem, rng, n_draws, phase, n_gen,
                    step, pop, off, infills, opt, velocities, pbest, gbest, old_pbest,
                    pool, next_pop, advance_ret, first_run, infill_locals >>

\* One pass of the body of the inner loop, for the rows pf_i and pf_j: a hit sets
\* the flag of pf_i and breaks to the next i; the end of the inner loop goes on
\* to the next i as well.
PF_Compare ==
    /\ pf_pc = "loop"
    /\ pf_i <= Len(combined)
    /\ IF pf_i # pf_j /\ PF_Test(combined, pf_i, pf_j)
       THEN /\ is_dominated' = [is_dominated EXCEPT ![pf_i] = TRUE]
            /\ pf_i' = pf_i + 1
            /\ pf_j' = 1
       ELSE /\ is_dominated' = is_dominated
            /\ pf_i' = IF pf_j = Len(combined) THEN pf_i + 1 ELSE pf_i
            /\ pf_j' = IF pf_j = Len(combined) THEN 1 ELSE pf_j + 1
    /\ UNCHANGED << pf_pc, n_points, combined, pareto_front >>
    /\ UNCHANGED << alg, pop_size, n_max_gen, seed, problem, rng, n_draws, phase, n_gen,
                    step, pop, off, infills, opt, velocities, pbest, gbest, old_pbest,
                    pool, next_pop, advance_ret, first_run, infill_locals >>

\* The loops are over: pareto_front = combined[~is_dominated] is returned.
PF_Return ==
    /\ pf_pc = "loop"
    /\ pf_i > Len(combined)
    /\ pareto_front' = Filter(combined, is_dominated)
    /\ pf_pc' = "done"
    /\ UNCHANGED << n_points, combined, is_dominated, pf_i, pf_j >>
    /\ UNCHANGED << alg, pop_size, n_max_gen, seed, problem, rng, n_draws, phase, n_gen,
                    step, pop, off, infills, opt, velocities, pbest, gbest, old_pbest,
                    pool, next_pop, advance_ret, first_run, infill_locals >>

\* No run of an algorithm is under way: the cell of the notebook that calls
\* pareto_front constructs a MyProblem and nothing else.
InitPareto ==
    /\ Fresh("MODE", PopSize, NGen, 0)
    /\ rng = 0
    /\ first_run = << >>

ParetoSpec == InitPareto /\ [][PF_Call \/ PF_Compare \/ PF_Return]_vars
\* =============================================================== claims
\* The domination rule: no worse in every objective, better in at least one.
ParetoDominates(fa, fb) ==
    /\ \A m \in 1..n_obj : fa[m] <= fb[m]
    /\ \E m \in 1..n_obj : fa[m] < fb[m]

\* MODE._advance has run: pool and next_pop are those of its last call.
MODE_Advanced == alg = "MODE" /\ step = "infill" /\ n_gen >= 2

PoolFronts == NonDominatedSorting(GetF(pool))

Selected == Range(next_pop)

\* C1: MODE survival selection returns the chosen candidates of the pool, each
\* index once, never more than pop_size of them, and exactly pop_size when the
\* pool has at least pop_size candidates.
C1_SurvivalSize ==
    MODE_Advanced =>
        /\ pop = Take(pool, next_pop)
        /\ Cardinality(Selected) = Len(next_pop)
        /\ Selected \subseteq 1..Len(pool)
        /\ Len(pop) <= pop_size
        /\ (Len(pool) >= pop_size => Len(pop) = pop_size)

\* A pool larger than pop_size was cut to pop_size inside its second front.
C1_Witness ==
    /\ MODE_Advanced
    /\ Len(pool) > pop_size
    /\ Len(pop) = pop_size
    /\ Len(PoolFronts) >= 2
    /\ Len(PoolFronts[1]) < pop_size
    /\ Len(PoolFronts[1]) + Len(PoolFronts[2]) > pop_size

\* C2: fronts are admitted whole in rank order and only the first front that
\* does not fit is truncated: a selected candidate of front k means every front
\* before k is selected whole, nothing is selected after a front that is not
\* selected whole, and of a pool of 6 with 3 non-dominated candidates and
\* pop_size 4 the 3 of front 0 and exactly 1 other candidate are selected.
C2_RankOrder ==
    MODE_Advanced =>
        LET fronts == PoolFronts
            members(k) == Range(fronts[k])
        IN  /\ \A k \in 1..Len(fronts) :
                   members(k) \cap Selected # {} =>
                       \A e \in 1..(k - 1) : members(e) \subseteq Selected
            /\ \A k \in 1..Len(fronts) :
                   ~(members(k) \subseteq Selected) =>
                       \A l \in (k + 1)..Len(fronts) : members(l) \cap Selected = {}
            /\ (Len(pool) = 6 /\ pop_size = 4 /\ Len(fronts[1]) = 3) =>
                   /\ members(1) \subseteq Selected
                   /\ Cardinality(Selected \ members(1)) = 1

\* The pool of 6 with 3 non-dominated candidates, pop_size 4, was selected from,
\* the one other candidate coming from a second front of several, a third behind it.
C2_Witness ==
    /\ MODE_Advanced
    /\ Len(pool) = 6
    /\ pop_size = 4
    /\ Len(PoolFronts) >= 3
    /\ Len(PoolFronts[1]) = 3
    /\ Len(PoolFronts[2]) >= 2
    /\ Cardinality(Selected \cap Range(PoolFronts[2])) = 1

\* C3: every coordinate of every decision vector of the offspring, the
\* population, the personal and global bests and the optimum lies in [xl, xu].
InBounds(x) == \A k \in 1..n_var : xl[k] <= x[k] /\ x[k] <= xu[k]

C3_WithinBounds ==
    /\ \A i \in 1..Len(infills) : InBounds(infills[i].X)
    /\ \A i \in 1..Len(pop) : InBounds(pop[i].X)
    /\ \A i \in 1..Len(pbest) : InBounds(pbest[i].X)
    /\ \A i \in 1..Len(opt) : InBounds(opt[i].X)
    /\ gbest # NoIndividual => InBounds(gbest.X)

\* MODE._infill computed a coordinate outside the bounds and returned it clamped.
C3_Witness ==
    /\ alg = "MODE"
    /\ phase = "Running"
    /\ step = "advance"
    /\ \E i \in 1..Len(off), k \in 1..n_var :
           /\ off[i][k] > xu[k]
           /\ infills[i].X[k] = xu[k]
    /\ \E i \in 1..Len(off), k \in 1..n_var :
           /\ off[i][k] < xl[k]
           /\ infills[i].X[k] = xl[k]

MOPSO_Advanced == alg = "MOPSO" /\ step = "infill" /\ n_gen >= 2

\* C4: in a MOPSO the personal best of member i changes only in _advance, only
\* to the new candidate of member i, and only if that candidate strictly
\* Pareto-dominates the previous personal best; a dominating candidate is taken,
\* any other leaves the personal best as it was.
C4_PbestOnlyByDomination ==
    [][(alg = "MOPSO" /\ phase # "Uninitialized") =>
          \A i \in 1..pop_size :
              /\ pbest'[i] # pbest[i] =>
                     /\ step = "advance"
                     /\ pbest'[i] = infills[i]
                     /\ ParetoDominates(infills[i].F, pbest[i].F)
              /\ (step = "advance" /\ ParetoDominates(infills[i].F, pbest[i].F)) =>
                     pbest'[i] = infills[i]]_vars

\* One generation replaced the personal best of a member by its dominating new
\* candidate and kept that of a member whose new candidate was different.
C4_Witness ==
    /\ MOPSO_Advanced
    /\ \E i \in 1..pop_size :
           /\ pbest[i] # old_pbest[i]
           /\ pbest[i] = pop[i]
           /\ ParetoDominates(pop[i].F, old_pbest[i].F)
    /\ \E j \in 1..pop_size :
           /\ pbest[j] = old_pbest[j]
           /\ pop[j].F # pbest[j].F

\* C5: once a MOPSO is initialized the global best is one of the personal bests
\* and no personal best dominates it, after _initialize_advance as well as after
\* every _advance.
C5_GbestNonDominated ==
    (alg = "MOPSO" /\ phase # "Uninitialized") =>
        /\ \E i \in 1..Len(pbest) : gbest = pbest[i]
        /\ \A i \in 1..Len(pbest) : ~ParetoDominates(pbest[i].F, gbest.F)

\* The members of population p that no member of p dominates.
FrontZero(p) ==
    {i \in 1..Len(p) : \A j \in 1..Len(p) : ~ParetoDominates(p[j].F, p[i].F)}

\* The sequence o holds exactly the members of p that no member of p dominates.
IsFrontZeroOf(o, p) ==
    /\ \A k \in 1..Len(o) : \E i \in FrontZero(p) : o[k] = p[i]
    /\ \A i \in FrontZero(p) : \E k \in 1..Len(o) : o[k] = p[i]

C8_OptimumIsFrontZero ==
    phase # "Uninitialized" => IsFrontZeroOf(opt, pop)

\* A MOPSO has terminated after several generations with a population of which
\* some members are dominated and left out of the optimum.
C8_Witness ==
    /\ alg = "MOPSO"
    /\ phase = "Terminated"
    /\ n_gen >= 2
    /\ Len(opt) >= 1
    /\ Len(opt) < Len(pop)
    /\ IsFrontZeroOf(opt, pop)

HasNonFinite(f) == \E m \in 1..n_obj : f[m] \in {NaN, PosInf, NegInf}

\* C11: a candidate with a non-finite objective value counts as dominated by
\* every finite candidate: after an _advance it is not in the optimum while the
\* population has a finite candidate, it is not in front 0 of MODE's merged pool
\* while the pool has a finite candidate, and it has not replaced a finite
\* personal best.
C11_NonFiniteSortsLast ==
    (phase = "Running" /\ step = "infill" /\ n_gen >= 2) =>
        /\ \A k \in 1..Len(opt) :
               HasNonFinite(opt[k].F) => \A i \in 1..Len(pop) : HasNonFinite(pop[i].F)
        /\ alg = "MODE" =>
               \A j \in Range(PoolFronts[1]) :
                   HasNonFinite(pool[j].F) => \A i \in 1..Len(pool) : HasNonFinite(pool[i].F)
        /\ alg = "MOPSO" =>
               \A i \in 1..pop_size :
                   (pbest[i] # old_pbest[i] /\ ~HasNonFinite(old_pbest[i].F)) =>
                       ~HasNonFinite(pbest[i].F)

\* C12: a MODE whose pop_size is below 4 is rejected when the driver is
\* initialized, so it never gets past Uninitialized, and no run fails in a
\* generation's _infill.
C12_SmallPopRejected ==
    /\ (alg = "MODE" /\ pop_size < 4) => phase = "Uninitialized"
    /\ phase # "Failed"

\* MODE._infill has just returned and its offspring are evaluated.
MODE_Infilled == alg = "MODE" /\ phase = "Running" /\ step = "advance" /\ infill_locals # << >>

\* v[k] of MODE._infill for the donors abc, clamped as np.clip does.
ClampedTrial(X, abc, k) ==
    Clip1(X[abc[1]][k] + (F[1] * (X[abc[2]][k] - X[abc[3]][k])) \div F[2], xl[k], xu[k])

\* C13: in a step of MODE._infill the donors a, b, c of every target i are
\* pairwise distinct candidates (i may be one of them); coordinate k of
\* offspring i is the clamped trial value X[a][k] + F*(X[b][k] - X[c][k]) when k
\* is the guaranteed dimension j or the draw of k is below CR, and X[i][k]
\* otherwise; at least one coordinate is the trial's; self.pop is unchanged.
C13_BinomialCrossover ==
    [][(alg = "MODE" /\ phase \in {"Initialized", "Running"} /\ step = "infill"
            /\ step' = "advance") =>
        /\ pop' = pop
        /\ Len(infills') = pop_size
        /\ \A i \in 1..pop_size :
              LET l == infill_locals'[i]
                  X == GetX(pop)
              IN  /\ \A n \in 1..3 : l.abc[n] \in 1..pop_size
                  /\ l.abc[1] # l.abc[2] /\ l.abc[1] # l.abc[3] /\ l.abc[2] # l.abc[3]
                  /\ l.j \in 1..n_var
                  /\ \A k \in 1..n_var :
                        infills'[i].X[k] =
                            IF k = l.j \/ l.r[k] * CR[2] < CR[1] * RandRes
                            THEN ClampedTrial(X, l.abc, k)
                            ELSE X[i][k]
                  /\ \E k \in 1..n_var : infills'[i].X[k] = ClampedTrial(X, l.abc, k)
                  /\ infills'[i].F = Evaluate(infills'[i].X)]_vars

\* MODE._infill has run; a target is one of its own donors; one of its
\* coordinates is the trial's and differs from its own, another is its own
\* because that dimension is not j and its draw is not below CR.
C13_Witness ==
    /\ MODE_Infilled
    /\ \E i \in 1..pop_size :
          LET l == infill_locals[i]
          IN  /\ \E n \in 1..3 : l.abc[n] = i
              /\ \E k \in 1..n_var : infills[i].X[k] # pop[i].X[k]
              /\ \E k \in 1..n_var : k # l.j /\ l.r[k] * CR[2] >= CR[1] * RandRes
                                      /\ infills[i].X[k] = pop[i].X[k]

\* C14: MyProblem.pareto_front returns the true Pareto front of the grid it
\* evaluates: the vector of a grid point is in the result if and only if the
\* vector of no other grid point dominates it in the three objectives.
C14_TrueParetoFront ==
    pf_pc = "done" =>
        \A i \in 1..Len(combined) :
            (\E n \in 1..Len(pareto_front) : pareto_front[n] = combined[i])
                <=> ~\E j \in 1..Len(combined) : ParetoDominates(combined[j], combined[i])
====
